---------------------------- MODULE Spec2Model ----------------------------
(***************************************************************************)
(* The circuit breaker of Backend/DesignPattern/CircuitBreaker.cpp as a    *)
(* state machine.  Threads call execute() on one shared CircuitBreaker;    *)
(* one observer calls getMetrics().  Every step is one statement (or one   *)
(* group of statements no other step can tell apart) of the source.        *)
(*                                                                         *)
(* The clock is system_clock::now() counted in ticks; a second is          *)
(* TicksPerSecond ticks, so that duration_cast<seconds> truncates.         *)
(***************************************************************************)
EXTENDS Integers, FiniteSets

\* ---------------------------------------------------------------- bounds
NumThreads == 2
MaxCount == 3
MaxTime == 4
MaxParam == 2
TicksPerSecond == 2

Threads == 1..NumThreads

\* The constructor takes three ints and accepts every value; 0 stands for the
\* non-positive ones.
ParamRange == 0..MaxParam

\* enum class CircuitState
CircuitState == {"CLOSED", "OPEN", "HALF_OPEN"}

\* What a call of func() can do: return a value, throw an exception derived
\* from std::exception, or throw anything else (throw 42;).
Outcomes == {"ok", "std_exception", "other_exception"}

Failures == {"std_exception", "other_exception"}

VARIABLES
    failureThreshold_,  \* int, set by the constructor
    retryTime_,         \* int, seconds
    successThreshold_,  \* int
    failureCount_,      \* std::atomic<int>
    successCount_,      \* std::atomic<int>
    state_,             \* CircuitState
    lastFailureTime_,   \* time_point, in ticks
    mutex_,             \* {} when free, {t} when thread t holds it
    now,                \* system_clock::now(), in ticks
    pc,                 \* where each thread is inside execute
    result,             \* history: how the latest execute past the lock ended
    invoked,            \* history: func() invocations of that execute
    path,               \* history: what its state check did
    opState,            \* history: state_ when it invoked func()
    opOutcome,          \* history: what func() did in it
    applied,            \* history: the handlers (onSuccess, onFailure) it has run
    pre,                \* history: the breaker's values when the running execute locked
    closedStreak,       \* history: failed operations in a row while CLOSED
    episodeSuccesses,   \* history: successes in a row since HALF_OPEN was entered
    mpc,                \* where the observer is inside getMetrics
    metrics,            \* the map getMetrics is building
    seen,               \* history: values the breaker had during the getMetrics call
    called,             \* scenario: the threads that have made their one call
    tripsInFlight,      \* scenario: calls in flight when the breaker tripped
    healthy             \* scenario: from now on every operation succeeds

config == <<failureThreshold_, retryTime_, successThreshold_>>
breaker == <<failureCount_, successCount_, state_, lastFailureTime_>>
history == <<result, invoked, path, opState, opOutcome, applied, pre, closedStreak,
             episodeSuccesses>>
observer == <<mpc, metrics>>
scenario == <<called, tripsInFlight, healthy>>
vars == <<config, breaker, mutex_, now, pc, history, observer, seen, scenario>>

\* ------------------------------------------------------- pure operations

\* ++ on std::atomic<int>: two's complement, wraps at INT_MAX.
Inc(x) == IF x = 2147483647 THEN -2147483647 - 1 ELSE x + 1

\* The count() of the duration without the duration_cast<seconds>.
ElapsedCount(n, last) == n - last

\* The duration taken the wrong way round, lastFailureTime_ - now.
ElapsedReversed(n, last) ==
    IF last >= n THEN (last - n) \div TicksPerSecond
                 ELSE -((n - last) \div TicksPerSecond)

\* duration_cast<seconds>(now - lastFailureTime_).count(): truncates toward
\* zero.
ElapsedSeconds(n, last) ==
    IF n >= last THEN (n - last) \div TicksPerSecond
                 ELSE -((last - n) \div TicksPerSecond)

CooldownNotBefore(n, last, retry) == ElapsedSeconds(n, last) > retry

\* The condition of line 35-36.
CooldownElapsed(n, last, retry) == ElapsedSeconds(n, last) >= retry

FailureThresholdExact(count, threshold) == count = threshold

FailureThresholdExceeded(count, threshold) == count > threshold

\* The condition of line 75.
FailureThresholdReached(count, threshold) == count >= threshold

SuccessThresholdExceeded(count, threshold) == count > threshold

\* The condition of line 85.
SuccessThresholdReached(count, threshold) == count >= threshold

NoMetrics == [failureCount |-> 0, successCount |-> 0, currentState |-> "CLOSED"]

\* The three values getMetrics reports, as they are in the breaker now.
Current == [failureCount |-> failureCount_, successCount |-> successCount_,
            currentState |-> state_]

\* A value of the breaker agrees with what the running getMetrics call has
\* read so far.
Agrees(v) ==
    /\ mpc' \in {"successCount", "currentState", "done"}
          => v.failureCount = metrics'.failureCount
    /\ mpc' \in {"currentState", "done"}
          => v.successCount = metrics'.successCount

\* History kept for getMetrics: the values the breaker has had, all three at
\* the same moment, since the running getMetrics call began; those that
\* differ from what the call has read are dropped.
Observe ==
    seen' = IF mpc' = "idle" THEN {}
            ELSE {v \in seen \cup {Current'} : Agrees(v)}

\* ------------------------------------------------------------------ Init

\* CircuitBreaker(failureThreshold, retryTime, successThreshold)
Init ==
    /\ failureThreshold_ \in ParamRange
    /\ retryTime_ \in ParamRange
    /\ successThreshold_ \in ParamRange
    /\ failureCount_ = 0
    /\ successCount_ = 0
    /\ state_ = "CLOSED"
    /\ now = 0
    /\ lastFailureTime_ = 0
    /\ mutex_ = {}
    /\ pc = [t \in Threads |-> "idle"]
    /\ result = "none"
    /\ invoked = 0
    /\ path = "none"
    /\ opState = "none"
    /\ opOutcome = "none"
    /\ applied = {}
    /\ pre = NoMetrics
    /\ closedStreak = 0
    /\ episodeSuccesses = 0
    /\ mpc = "idle"
    /\ metrics = NoMetrics
    /\ seen = {}
    /\ called = {}
    /\ tripsInFlight = 0
    /\ healthy = FALSE

\* --------------------------------------------------------------- execute

\* A return statement of execute, or an exception leaving it: the
\* lock_guard releases the mutex.
Leave(t, how) ==
    /\ pc' = [pc EXCEPT ![t] = "idle"]
    /\ result' = how
    /\ mutex_' = {}
    /\ pre' = NoMetrics

\* A thread calls execute(func).
Call(t) ==
    /\ pc[t] = "idle"
    /\ healthy \/ (failureCount_ < MaxCount /\ closedStreak < MaxCount)
    /\ pc' = [pc EXCEPT ![t] = "lock"]
    /\ UNCHANGED <<config, breaker, mutex_, now, history, observer>>
    /\ Observe

\* std::lock_guard<std::mutex> lock(mutex_);
Lock(t) ==
    /\ pc[t] = "lock"
    /\ mutex_ = {}
    /\ mutex_' = {t}
    /\ pc' = [pc EXCEPT ![t] = "check"]
    /\ result' = "none"
    /\ invoked' = 0
    /\ path' = "none"
    /\ opState' = "none"
    /\ opOutcome' = "none"
    /\ applied' = {}
    /\ pre' = Current
    /\ UNCHANGED <<config, breaker, now, closedStreak, episodeSuccesses, observer>>
    /\ Observe

\* if (state_ == OPEN) { if (elapsed >= retryTime_) state_ = HALF_OPEN;
\*                       else return fallback(); }
StateCheck(t) ==
    /\ pc[t] = "check"
    /\ IF state_ = "OPEN"
       THEN IF CooldownElapsed(now, lastFailureTime_, retryTime_)
            THEN /\ state_' = "HALF_OPEN"
                 /\ pc' = [pc EXCEPT ![t] = "func"]
                 /\ path' = "trial"
                 /\ episodeSuccesses' = 0
                 /\ UNCHANGED <<mutex_, result, pre>>
            ELSE /\ Leave(t, "fallback")
                 /\ path' = "short_circuit"
                 /\ UNCHANGED <<state_, episodeSuccesses>>
       ELSE /\ pc' = [pc EXCEPT ![t] = "func"]
            /\ path' = "pass"
            /\ UNCHANGED <<state_, mutex_, result, pre, episodeSuccesses>>
    /\ UNCHANGED <<config, failureCount_, successCount_, lastFailureTime_, now,
                   invoked, opState, opOutcome, applied, closedStreak, observer>>
    /\ Observe

\* try { auto result = func(); ... } catch (const std::exception& e) { ... }
\* An exception of any other type is not caught: it leaves execute.
Operation(t, o) ==
    /\ pc[t] = "func"
    /\ invoked' = invoked + 1
    /\ opState' = state_
    /\ opOutcome' = o
    /\ closedStreak' = IF state_ # "CLOSED" THEN closedStreak
                       ELSE IF o = "ok" THEN 0 ELSE closedStreak + 1
    /\ episodeSuccesses' = IF state_ # "HALF_OPEN" THEN episodeSuccesses
                           ELSE IF o = "ok" THEN episodeSuccesses + 1 ELSE 0
    /\ CASE o = "ok" ->
              pc' = [pc EXCEPT ![t] = "onSuccess"] /\ UNCHANGED <<mutex_, result, pre>>
         [] o = "std_exception" ->
              pc' = [pc EXCEPT ![t] = "onFailure"] /\ UNCHANGED <<mutex_, result, pre>>
         [] o = "other_exception" ->
              Leave(t, "thrown")
    /\ UNCHANGED <<config, breaker, now, path, applied, observer>>
    /\ Observe

\* onFailure: failureCount_++;
OnFailureCount(t) ==
    /\ pc[t] = "onFailure"
    /\ failureCount_' = Inc(failureCount_)
    /\ pc' = [pc EXCEPT ![t] = "onFailureCheck"]
    /\ applied' = applied \cup {"onFailure"}
    /\ UNCHANGED <<config, successCount_, state_, lastFailureTime_, mutex_, now,
                   result, invoked, path, opState, opOutcome, pre, closedStreak,
                   episodeSuccesses, observer>>
    /\ Observe

\* An onFailure that records the time of every failure, tripping or not.
OnFailureCheckStamping(t) ==
    /\ pc[t] = "onFailureCheck"
    /\ lastFailureTime_' = now
    /\ IF FailureThresholdReached(failureCount_, failureThreshold_)
       THEN state_' = "OPEN"
       ELSE UNCHANGED state_
    /\ Leave(t, "fallback")
    /\ UNCHANGED <<config, failureCount_, successCount_, now, invoked, path, opState,
                   opOutcome, applied, closedStreak, episodeSuccesses, observer>>
    /\ Observe

\* onFailure: if (failureCount_ >= failureThreshold_) { state_ = OPEN;
\* lastFailureTime_ = now(); }   then   return fallback();
OnFailureCheck(t) ==
    /\ pc[t] = "onFailureCheck"
    /\ IF FailureThresholdReached(failureCount_, failureThreshold_)
       THEN state_' = "OPEN" /\ lastFailureTime_' = now
       ELSE UNCHANGED <<state_, lastFailureTime_>>
    /\ Leave(t, "fallback")
    /\ UNCHANGED <<config, failureCount_, successCount_, now, invoked, path, opState,
                   opOutcome, applied, closedStreak, episodeSuccesses, observer>>
    /\ Observe

\* onSuccess: if (state_ == HALF_OPEN) successCount_++;
\*            else { failureCount_ = 0; }   then   return result;
OnSuccess(t) ==
    /\ pc[t] = "onSuccess"
    /\ IF state_ = "HALF_OPEN"
       THEN /\ successCount_' = Inc(successCount_)
            /\ pc' = [pc EXCEPT ![t] = "onSuccessCheck"]
            /\ UNCHANGED <<failureCount_, mutex_, result, pre>>
       ELSE /\ failureCount_' = 0
            /\ Leave(t, "result")
            /\ UNCHANGED successCount_
    /\ applied' = applied \cup {"onSuccess"}
    /\ UNCHANGED <<config, state_, lastFailureTime_, now, invoked, path, opState,
                   opOutcome, closedStreak, episodeSuccesses, observer>>
    /\ Observe

\* onSuccess: if (successCount_ >= successThreshold_) reset();
\* reset: state_ = CLOSED;
OnSuccessCheck(t) ==
    /\ pc[t] = "onSuccessCheck"
    /\ IF SuccessThresholdReached(successCount_, successThreshold_)
       THEN /\ state_' = "CLOSED"
            /\ pc' = [pc EXCEPT ![t] = "resetFailureCount"]
            /\ closedStreak' = 0
            /\ UNCHANGED <<mutex_, result, pre>>
       ELSE /\ Leave(t, "result")
            /\ UNCHANGED <<state_, closedStreak>>
    /\ UNCHANGED <<config, failureCount_, successCount_, lastFailureTime_, now,
                   invoked, path, opState, opOutcome, applied, episodeSuccesses, observer>>
    /\ Observe

\* reset: failureCount_ = 0;
ResetFailureCount(t) ==
    /\ pc[t] = "resetFailureCount"
    /\ failureCount_' = 0
    /\ pc' = [pc EXCEPT ![t] = "resetSuccessCount"]
    /\ UNCHANGED <<config, successCount_, state_, lastFailureTime_, mutex_, now,
                   history, observer>>
    /\ Observe

\* reset: successCount_ = 0;   then   return result;
ResetSuccessCount(t) ==
    /\ pc[t] = "resetSuccessCount"
    /\ successCount_' = 0
    /\ Leave(t, "result")
    /\ UNCHANGED <<config, failureCount_, state_, lastFailureTime_, now, invoked, path,
                   opState, opOutcome, applied, closedStreak, episodeSuccesses, observer>>
    /\ Observe

\* ------------------------------------------------------------ getMetrics
\* getMetrics takes no lock.  The braced list is evaluated left to right:
\* failureCount_, successCount_, state_.  The read of state_ races with the
\* writes of execute; it yields the value state_ has at the moment of the
\* read, which is before or after any such write.

GetMetricsFailureCount ==
    /\ mpc = "idle"
    /\ mpc' = "successCount"
    /\ metrics' = [metrics EXCEPT !.failureCount = failureCount_]
    /\ UNCHANGED <<config, breaker, mutex_, now, pc, history>>
    /\ Observe

GetMetricsSuccessCount ==
    /\ mpc = "successCount"
    /\ mpc' = "currentState"
    /\ metrics' = [metrics EXCEPT !.successCount = successCount_]
    /\ UNCHANGED <<config, breaker, mutex_, now, pc, history>>
    /\ Observe

GetMetricsCurrentState ==
    /\ mpc = "currentState"
    /\ mpc' = "done"
    /\ metrics' = [metrics EXCEPT !.currentState = state_]
    /\ UNCHANGED <<config, breaker, mutex_, now, pc, history>>
    /\ Observe

\* The caller has the map and goes on.
GetMetricsReturn ==
    /\ mpc = "done"
    /\ mpc' = "idle"
    /\ metrics' = NoMetrics
    /\ UNCHANGED <<config, breaker, mutex_, now, pc, history>>
    /\ Observe

\* ----------------------------------------------------------------- clock
Tick ==
    /\ now < MaxTime
    /\ now' = now + 1
    /\ UNCHANGED <<config, breaker, mutex_, pc, history, observer>>
    /\ Observe

Next ==
    \/ \E t \in Threads : Call(t) /\ UNCHANGED scenario
    \/ \E t \in Threads : Lock(t) /\ UNCHANGED scenario
    \/ \E t \in Threads : StateCheck(t) /\ UNCHANGED scenario
    \/ \E t \in Threads : \E o \in Outcomes : Operation(t, o) /\ UNCHANGED scenario
    \/ \E t \in Threads : OnFailureCount(t) /\ UNCHANGED scenario
    \/ \E t \in Threads : OnFailureCheck(t) /\ UNCHANGED scenario
    \/ \E t \in Threads : OnSuccess(t) /\ UNCHANGED scenario
    \/ \E t \in Threads : OnSuccessCheck(t) /\ UNCHANGED scenario
    \/ \E t \in Threads : ResetFailureCount(t) /\ UNCHANGED scenario
    \/ \E t \in Threads : ResetSuccessCount(t) /\ UNCHANGED scenario
    \/ Tick /\ UNCHANGED scenario

\* Threads calling execute at any time, any number of times, with operations
\* that return or throw anything.
Spec == Init /\ [][Next]_vars

NextObserved ==
    \/ Next
    \/ GetMetricsFailureCount /\ UNCHANGED scenario
    \/ GetMetricsSuccessCount /\ UNCHANGED scenario
    \/ GetMetricsCurrentState /\ UNCHANGED scenario
    \/ GetMetricsReturn /\ UNCHANGED scenario

\* A breaker constructed with three positive parameters.
InitObserved ==
    /\ Init
    /\ failureThreshold_ >= 1 /\ retryTime_ >= 1 /\ successThreshold_ >= 1

\* The threads of execute and an observer thread calling getMetrics.
SpecObserved == InitObserved /\ [][NextObserved]_vars

\* Operations that return or throw an exception derived from std::exception,
\* the one kind execute catches.
Caught == {"ok", "std_exception"}

NextCaught ==
    \/ \E t \in Threads : Call(t) /\ UNCHANGED scenario
    \/ \E t \in Threads : Lock(t) /\ UNCHANGED scenario
    \/ \E t \in Threads : StateCheck(t) /\ UNCHANGED scenario
    \/ \E t \in Threads : \E o \in Caught : Operation(t, o) /\ UNCHANGED scenario
    \/ \E t \in Threads : OnFailureCount(t) /\ UNCHANGED scenario
    \/ \E t \in Threads : OnFailureCheck(t) /\ UNCHANGED scenario
    \/ \E t \in Threads : OnSuccess(t) /\ UNCHANGED scenario
    \/ \E t \in Threads : OnSuccessCheck(t) /\ UNCHANGED scenario
    \/ \E t \in Threads : ResetFailureCount(t) /\ UNCHANGED scenario
    \/ \E t \in Threads : ResetSuccessCount(t) /\ UNCHANGED scenario
    \/ Tick /\ UNCHANGED scenario

\* As Spec, with operations that throw nothing but std::exception.
SpecCaught == Init /\ [][NextCaught]_vars

\* The calls other than the tripping one that have entered execute and not
\* left it, counted in the step that takes the breaker from CLOSED to OPEN.
CountInFlight ==
    /\ tripsInFlight' =
        IF state_ = "CLOSED" /\ state_' = "OPEN"
        THEN Cardinality({u \in Threads : pc[u] # "idle"}) - 1
        ELSE tripsInFlight
    /\ UNCHANGED <<called, healthy>>

\* Each thread calls execute once, all of them before the breaker trips.
CallParallel(t) ==
    /\ t \notin called
    /\ state_ = "CLOSED"
    /\ Call(t)
    /\ called' = called \cup {t}
    /\ UNCHANGED <<tripsInFlight, healthy>>

NextParallelFailing ==
    \/ \E t \in Threads : CallParallel(t)
    \/ \E t \in Threads : Lock(t) /\ CountInFlight
    \/ \E t \in Threads : StateCheck(t) /\ CountInFlight
    \/ \E t \in Threads : \E o \in Failures : Operation(t, o) /\ CountInFlight
    \/ \E t \in Threads : OnFailureCount(t) /\ CountInFlight
    \/ \E t \in Threads : OnFailureCheck(t) /\ CountInFlight
    \/ Tick /\ UNCHANGED scenario

\* N parallel callers, every operation failing: no call reaches onSuccess.
SpecParallelFailing == Init /\ [][NextParallelFailing]_vars

\* The dependency recovers: every operation invoked from now on succeeds.
Recover ==
    /\ ~healthy
    /\ healthy' = TRUE
    /\ UNCHANGED <<config, breaker, mutex_, now, pc, history, observer, seen,
                   called, tripsInFlight>>

\* Time keeps advancing after the recovery for as long as the breaker waits
\* for it: until the cooldown that began at lastFailureTime_ is over.
TickCooldown ==
    /\ healthy /\ state_ = "OPEN"
    /\ now >= MaxTime
    /\ now < lastFailureTime_ + retryTime_ * TicksPerSecond
    /\ now' = now + 1
    /\ UNCHANGED <<config, breaker, mutex_, pc, history, observer, scenario>>
    /\ Observe

\* The steps of the thread that holds the mutex, other than the operation.
Handler(t) ==
    \/ StateCheck(t)
    \/ OnFailureCount(t)
    \/ OnFailureCheck(t)
    \/ OnSuccess(t)
    \/ OnSuccessCheck(t)
    \/ ResetFailureCount(t)
    \/ ResetSuccessCount(t)

NextRecovery ==
    \/ \E t \in Threads : Call(t) /\ UNCHANGED scenario
    \/ \E t \in Threads : Lock(t) /\ UNCHANGED scenario
    \/ \E t \in Threads : StateCheck(t) /\ UNCHANGED scenario
    \/ \E t \in Threads : \E o \in Outcomes :
            (healthy => o = "ok") /\ Operation(t, o) /\ UNCHANGED scenario
    \/ \E t \in Threads : OnFailureCount(t) /\ UNCHANGED scenario
    \/ \E t \in Threads : OnFailureCheck(t) /\ UNCHANGED scenario
    \/ \E t \in Threads : OnSuccess(t) /\ UNCHANGED scenario
    \/ \E t \in Threads : OnSuccessCheck(t) /\ UNCHANGED scenario
    \/ \E t \in Threads : ResetFailureCount(t) /\ UNCHANGED scenario
    \/ \E t \in Threads : ResetSuccessCount(t) /\ UNCHANGED scenario
    \/ Tick /\ UNCHANGED scenario
    \/ TickCooldown
    \/ Recover

\* Callers keep calling, some waiting caller gets the mutex when it is free
\* (std::mutex promises no more than that), the thread that holds the mutex
\* keeps running, operations return, and time advances.
FairRecovery ==
    /\ WF_vars(\E t \in Threads : Call(t) /\ UNCHANGED scenario)
    /\ WF_vars(\E t \in Threads : Lock(t) /\ UNCHANGED scenario)
    /\ WF_vars(\E t \in Threads : Handler(t) /\ UNCHANGED scenario)
    /\ WF_vars(\E t \in Threads : Operation(t, "ok") /\ UNCHANGED scenario)
    /\ WF_vars((Tick /\ UNCHANGED scenario) \/ TickCooldown)

\* As Spec, with a dependency that recovers at some point.
SpecRecovery == Init /\ [][NextRecovery]_vars /\ FairRecovery

TypeOK ==
    /\ state_ \in CircuitState
    /\ mutex_ \subseteq Threads /\ Cardinality(mutex_) <= 1
    /\ now \in 0..(MaxTime + MaxParam * TicksPerSecond)
    /\ lastFailureTime_ \in 0..MaxTime
    /\ result \in {"none", "result", "fallback", "thrown"}
    /\ applied \subseteq {"onSuccess", "onFailure"}
    /\ called \subseteq Threads
    /\ tripsInFlight \in 0..NumThreads
    /\ healthy \in BOOLEAN

\* ---------------------------------------------------------------- claims
\* In the formulas below a failed operation is an operation that threw,
\* whatever it threw, and an execute call has finished once it has given the
\* mutex back.  While the mutex is free the breaker's fields do not change
\* and the history variables describe the execute call that held it last.
\* The claims are about breakers the specification allows, with three
\* positive parameters; C10 is the claim that there are no others.

PositiveThresholds ==
    failureThreshold_ >= 1 /\ retryTime_ >= 1 /\ successThreshold_ >= 1

\* C1: starting from Closed with failureCount 0, the breaker leaves Closed
\* for Open exactly at the call that completes failureThreshold failed
\* operations in a row; every success in Closed sets failureCount back to 0.
\* Between calls: while Closed the run of failures is shorter than the
\* threshold and failureCount equals it; once tripped, the run that tripped
\* it was exactly failureThreshold long.
C1_TripsAtThresholdConsecutiveFailures ==
    (PositiveThresholds /\ mutex_ = {}) =>
        IF state_ = "CLOSED"
        THEN closedStreak < failureThreshold_ /\ failureCount_ = closedStreak
        ELSE closedStreak = failureThreshold_

\* C2: when the state is Open and less than cooldownDuration has elapsed
\* since lastFailureTimestamp, the state check of execute returns the
\* fallback without invoking the operation and leaves state, failureCount,
\* successCount and lastFailureTimestamp unchanged.
C2_OpenShortCircuits ==
    [][\A t \in Threads :
          (/\ pc[t] = "check" /\ pc'[t] # "check"
           /\ state_ = "OPEN"
           /\ now - lastFailureTime_ < retryTime_ * TicksPerSecond)
          => (/\ pc'[t] = "idle"
              /\ result' = "fallback"
              /\ invoked' = 0
              /\ mutex_' = {}
              /\ UNCHANGED breaker)]_vars

\* C2 witness: a call was short-circuited by a breaker with a positive
\* cooldown.
C2_Witness ==
    /\ path = "short_circuit" /\ result = "fallback" /\ invoked = 0
    /\ state_ = "OPEN" /\ retryTime_ >= 1 /\ failureThreshold_ >= 1
    /\ now > lastFailureTime_

\* C3: when the state is Open and at least cooldownDuration has elapsed
\* since lastFailureTimestamp, the state check of the next execute moves the
\* breaker to HalfOpen before the operation runs, and that call invokes the
\* operation exactly once.
C3_CooldownElapsedTrial ==
    /\ [][\A t \in Threads :
            (/\ pc[t] = "check" /\ pc'[t] # "check"
             /\ state_ = "OPEN"
             /\ now - lastFailureTime_ >= retryTime_ * TicksPerSecond)
            => (/\ state_' = "HALF_OPEN"
                /\ pc'[t] = "func"
                /\ path' = "trial"
                /\ invoked' = 0)]_vars
    /\ [](path = "trial" =>
            invoked = IF \E t \in mutex_ : pc[t] = "func" THEN 0 ELSE 1)

\* C3 witness: a trial call of a breaker with a positive cooldown has
\* finished, having invoked the operation once.
C3_Witness ==
    /\ path = "trial" /\ invoked = 1 /\ mutex_ = {}
    /\ retryTime_ >= 1 /\ failureThreshold_ >= 1

\* C4: an execute call whose operation failed in HalfOpen leaves the breaker
\* Open with lastFailureTimestamp set to the current time, whatever
\* failureCount and failureThreshold are.
C4_HalfOpenFailureReopens ==
    [][\A t \in Threads :
          (/\ PositiveThresholds
           /\ pc[t] # "idle" /\ pc'[t] = "idle"
           /\ opState' = "HALF_OPEN"
           /\ opOutcome' \in Failures)
          => (state_' = "OPEN" /\ lastFailureTime_' = now)]_vars

\* C5: after a failed operation in HalfOpen, successCount is 0.
C5_HalfOpenFailureClearsSuccessCount ==
    (PositiveThresholds /\ mutex_ = {} /\ opState = "HALF_OPEN"
        /\ opOutcome \in Failures)
        => successCount_ = 0

\* C6: the breaker goes from HalfOpen to Closed only at the call that
\* completes successThreshold successful operations in a row counted from
\* the latest entry into HalfOpen, and the closing call leaves failureCount
\* and successCount 0.
C6_ClosesAfterThresholdSuccessesOfEpisode ==
    [][/\ (PositiveThresholds /\ state_ = "HALF_OPEN" /\ state_' = "CLOSED")
            => episodeSuccesses' = successThreshold_
       /\ \A t \in Threads :
            (pc[t] = "resetSuccessCount" /\ pc'[t] = "idle")
            => (state_' = "CLOSED" /\ failureCount_' = 0 /\ successCount_' = 0)]_vars

\* C7: the breaker's lock is not held while the operation is being invoked.
C7_LockFreeDuringOperation ==
    PositiveThresholds => \A t \in Threads : pc[t] = "func" => t \notin mutex_

\* C8: the triple getMetrics returns equals the breaker's values at one
\* single instant.  The instants counted here are all the moments of the
\* getMetrics call, those inside a transition of execute included, so a
\* triple that fails this was never the breaker's value at any moment.
C8_MetricsIsSnapshot ==
    mpc = "done" => metrics \in seen

\* C9: execute never propagates a failure of the operation: it returns the
\* operation's value when the operation succeeded and the fallback otherwise.
C9_ExecuteNeverThrows ==
    PositiveThresholds =>
        /\ result # "thrown"
        /\ result # "none" => (result = "result" <=> opOutcome = "ok")

\* C10: no breaker with a non-positive failureThreshold, cooldownDuration or
\* successThreshold exists or executes a call.
C10_NoCallWithInvalidConfiguration ==
    (\E t \in Threads : pc[t] # "idle") => PositiveThresholds

\* C11: N threads call execute in parallel with an operation that always
\* fails.  Once they have all returned and at least failureThreshold of them
\* have called, the breaker is Open and failureCount lies between the
\* threshold and the threshold plus the number of calls that were in flight
\* when it tripped; and the breaker is never Open with failureCount below the
\* threshold (such as 0).
C11_ParallelFailuresTrip ==
    PositiveThresholds =>
        /\ state_ = "OPEN" => failureCount_ >= failureThreshold_
        /\ ((\A t \in Threads : pc[t] = "idle")
                /\ Cardinality(called) >= failureThreshold_)
            => /\ state_ = "OPEN"
               /\ failureCount_ >= failureThreshold_
               /\ failureCount_ <= failureThreshold_ + tripsInFlight

\* The transition table of the specification (section 4), applied to the
\* values `m` the breaker had when the call began.  `trial` says the call
\* found the cooldown elapsed, `o` is the outcome of the operation ("none"
\* when the call was short-circuited).  In the row for a failure in HalfOpen
\* failureCount is incremented, as the failure-handling transition of the
\* same section says.
TableEntry(m, trial) ==
    IF m.currentState = "OPEN" /\ trial
    THEN [m EXCEPT !.currentState = "HALF_OPEN", !.successCount = 0]
    ELSE m

TableSuccess(m) ==
    IF m.currentState = "HALF_OPEN"
    THEN IF m.successCount + 1 < successThreshold_
         THEN [m EXCEPT !.successCount = m.successCount + 1]
         ELSE [failureCount |-> 0, successCount |-> 0, currentState |-> "CLOSED"]
    ELSE [m EXCEPT !.failureCount = 0]

TableFailure(m) ==
    IF m.currentState = "HALF_OPEN"
    THEN [failureCount |-> m.failureCount + 1, successCount |-> 0,
          currentState |-> "OPEN"]
    ELSE IF m.failureCount + 1 < failureThreshold_
         THEN [m EXCEPT !.failureCount = m.failureCount + 1]
         ELSE [m EXCEPT !.failureCount = m.failureCount + 1,
                        !.currentState = "OPEN"]

TableCall(m, trial, o) ==
    IF m.currentState = "OPEN" /\ ~trial THEN m
    ELSE IF o = "ok" THEN TableSuccess(TableEntry(m, trial))
    ELSE TableFailure(TableEntry(m, trial))

\* C12: after each execute call of a sequence of calls with success or
\* failure outcomes and time advances, the state, failureCount and
\* successCount that getMetrics reports are the ones the transition table of
\* section 4 gives for the values before the call.  A call's effect is
\* compared when it gives the mutex back; whether the cooldown had elapsed is
\* taken from the call itself (C2 and C3 are about that decision).
C12_MetricsFollowTransitionTable ==
    [][(PositiveThresholds /\ mutex_ # {} /\ mutex_' = {})
        => Current' = TableCall(pre, path' = "trial", opOutcome')]_vars

\* C13: an execute call that was not short-circuited has, when it leaves,
\* invoked the operation exactly once and applied exactly one transition:
\* the success handling if the operation succeeded, the failure handling if
\* it failed.  No call leaves with neither applied.
C13_OneInvocationOneTransition ==
    (PositiveThresholds /\ mutex_ = {} /\ path \in {"pass", "trial"}) =>
        /\ invoked = 1
        /\ applied = {IF opOutcome = "ok" THEN "onSuccess" ELSE "onFailure"}

\* C14: with threads running failing calls concurrently on a Closed breaker
\* whose failureCount is failureThreshold - 1, the breaker trips exactly
\* once.  A failing call that began at failureThreshold - 1 leaves the
\* breaker Open with failureCount at the threshold; the step from Closed to
\* Open has failureCount equal to the threshold and writes the timestamp;
\* while the breaker stays Open no caller changes failureCount or the
\* timestamp; and it leaves Open only once the cooldown has elapsed.
C14_TripsExactlyOnce ==
    [][PositiveThresholds =>
        /\ (/\ mutex_ # {} /\ mutex_' = {}
            /\ pre.currentState = "CLOSED"
            /\ pre.failureCount = failureThreshold_ - 1
            /\ opOutcome' \in Failures)
           => state_' = "OPEN" /\ failureCount_' = failureThreshold_
        /\ (state_ = "CLOSED" /\ state_' = "OPEN")
           => failureCount_' = failureThreshold_ /\ lastFailureTime_' = now
        /\ (state_ = "OPEN" /\ state_' = "OPEN")
           => UNCHANGED <<failureCount_, lastFailureTime_>>
        /\ (state_ = "OPEN" /\ state_' # "OPEN")
           => CooldownElapsed(now, lastFailureTime_, retryTime_)]_vars

\* C15: after construction lastFailureTimestamp is written only by a step
\* that moves the breaker into Open, from Closed or from HalfOpen, and every
\* such step writes the current time.  Successes, short-circuited calls, the
\* step from Open to HalfOpen, closing, and failures below the threshold
\* leave it unchanged.
C15_TimestampOnlyOnEnteringOpen ==
    [][/\ lastFailureTime_' # lastFailureTime_
            => state_ \in {"CLOSED", "HALF_OPEN"} /\ state_' = "OPEN"
       /\ (state_ # "OPEN" /\ state_' = "OPEN") => lastFailureTime_' = now]_vars

\* A trial call failed and reopened the breaker, stamping a later time than
\* the one of the first trip.
C15_Witness ==
    /\ mutex_ = {}
    /\ state_ = "OPEN" /\ opState = "HALF_OPEN" /\ opOutcome = "std_exception"
    /\ lastFailureTime_ = now /\ now >= 2

\* C16: for a breaker with positive thresholds, between execute calls the
\* state is Closed exactly when failureCount < failureThreshold, and Open or
\* HalfOpen exactly when failureCount >= failureThreshold; and no step
\* resets or decreases failureCount while the breaker is and stays Open or
\* HalfOpen.
C16_ClosedIffBelowFailureThreshold ==
    /\ []((PositiveThresholds /\ mutex_ = {})
            => (state_ = "CLOSED" <=> failureCount_ < failureThreshold_))
    /\ [][(PositiveThresholds /\ state_ # "CLOSED" /\ state_' # "CLOSED")
            => failureCount_' >= failureCount_]_vars

\* A trial call succeeded without closing the breaker: HalfOpen between
\* calls, failureCount still at the threshold.
C16_Witness ==
    /\ PositiveThresholds /\ mutex_ = {}
    /\ state_ = "HALF_OPEN" /\ opOutcome = "ok"
    /\ failureCount_ >= failureThreshold_

\* C17: for a breaker with positive thresholds, between execute calls
\* 0 <= successCount < successThreshold, and successCount is 0 whenever the
\* state is Closed.
C17_SuccessCountBelowThreshold ==
    (PositiveThresholds /\ mutex_ = {}) =>
        /\ 0 <= successCount_ /\ successCount_ < successThreshold_
        /\ state_ = "CLOSED" => successCount_ = 0

\* A success in HalfOpen was counted and the breaker is still HalfOpen.
C17_Witness ==
    /\ PositiveThresholds /\ mutex_ = {}
    /\ state_ = "HALF_OPEN" /\ opOutcome = "ok"
    /\ successCount_ = 1

\* C18: if from some point on every invoked operation succeeds and returns,
\* time keeps advancing and callers keep calling execute, then the breaker
\* eventually is Closed and stays Closed, and from then on no execute call
\* returns the fallback.
C18_RecoversAndStaysClosed ==
    healthy ~> [](state_ = "CLOSED" /\ result \notin {"fallback", "thrown"})

\* The breaker was Open when the dependency had recovered, waited for the
\* rest of the cooldown, and a call has closed it and returned the result.
C18_Witness ==
    /\ healthy /\ now > MaxTime
    /\ mutex_ = {} /\ state_ = "CLOSED" /\ result = "result"


=============================================================================
